---- MODULE Spec2Model ----
(***************************************************************************)
(* DNS-over-Discord worker: signed-webhook verification, interaction        *)
(* dispatch (src/src/index.js) and the deferred-response protocol of the    *)
(* dig command (src/unnamed/part_000, i.e. src/commands/dig.js).            *)
(*                                                                          *)
(* Every action is one synchronous section of JavaScript, i.e. the code     *)
(* that runs between two suspension points (await / promise reaction).      *)
(* JavaScript runs such a section to completion, so it is atomic.           *)
(***************************************************************************)
EXTENDS Naturals, Sequences, FiniteSets

\* Number of fetch events (requests) the worker handles concurrently.
NReq == 2

Reqs == 1..NReq

VARIABLES
    req,        \* per fetch event: the request, its request-path position and its effects
    patchDepth  \* nesting depth of adapterProto.applyToEventSync (shared by all events)

vars == <<req, patchDepth>>

----------------------------------------------------------------------------
\* Inputs

Paths == {"/interactions", "/health", "/privacy", "/terms", "/invite",
          "/server", "/github", "/", "/unknown"}

\* The requests the worker is sent: a GET of every path, a POST of /interactions
\* and a POST of another path.
Requests ==
    {[method |-> "GET", path |-> p] : p \in Paths}
        \cup {[method |-> "POST", path |-> p] : p \in {"/interactions", "/health"}}

\* The signature headers of a request, as verify sees them.
Sigs == {"missing", "mismatch", "valid"}

\* JSON.parse(bodyText): the body is not JSON, is the JSON value null, or is an object.
\* type: body.type.  data: whether body.data is present.
\* id: body.data.id (command) or body.data.custom_id (component).
\* options: body.data.options of the dig command: absent, or present with a domain
\* that validateDomain rejects or accepts.
Body(form, type, data, id, options) ==
    [form |-> form, type |-> type, data |-> data, id |-> id, options |-> options]

NoBody == Body("none", "none", "none", "none", "none")

Bodies ==
    { Body("notjson", "none", "none", "none", "none"),
      Body("null", "none", "none", "none", "none"),
      Body("object", "Ping", "absent", "none", "none"),
      Body("object", "Other", "absent", "none", "none"),
      Body("object", "ApplicationCommand", "absent", "none", "none"),
      Body("object", "ApplicationCommand", "present", "unregistered", "absent"),
      Body("object", "ApplicationCommand", "present", "constructor", "absent"),
      Body("object", "ApplicationCommand", "present", "id_other", "absent"),
      Body("object", "ApplicationCommand", "present", "id_dig", "absent"),
      Body("object", "ApplicationCommand", "present", "id_dig", "invalidDomain"),
      Body("object", "ApplicationCommand", "present", "id_dig", "validDomain"),
      Body("object", "MessageComponent", "absent", "none", "none"),
      Body("object", "MessageComponent", "present", "some-component", "none") }

----------------------------------------------------------------------------
\* Responses

Response(status, body, type, content, flags, headers) ==
    [status |-> status, body |-> body, type |-> type, content |-> content,
     flags |-> flags, headers |-> headers]

NoResponse == Response(0, "none", "none", "none", "none", "none")

\* new Response(null, { status })
emptyResponse(status) == Response(status, "empty", "none", "none", "none", "none")

\* An interaction response envelope { type, data: { content, flags } }
Envelope(type, content, flags) == [type |-> type, content |-> content, flags |-> flags]

jsonResponse(obj) ==
    Response(200, "json", obj.type, obj.content, obj.flags, "Content-Type: application/json")

redirectResponse(url) == Response(301, "empty", "none", "none", "none", url)

----------------------------------------------------------------------------
\* Collaborators whose code is outside src/

\* utils/verify.js: true only for a signature that matches the raw body; false (never
\* an exception) for missing headers or a mismatch.
verify(sig) == sig = "valid"

\* tmp/commands.json: the command table, keyed by the platform-assigned command id.
commands ==
    [id \in {"id_dig", "id_other"} |->
        [file |-> IF id = "id_dig" THEN "dig.js" ELSE "other.js"]]

\* Property names every plain JavaScript object inherits from Object.prototype.
ObjectPrototypeKeys == {"constructor"}

\* Outcomes of a dynamic import().
CommandLoads == {"loaded", "loadError"}
ComponentLoads == {"loaded", "notfound", "loadError"}

\* Outcomes of the execute of a handler unit other than dig.
CommandExecutes == {"ok", "throw"}
ComponentExecutes == {"ok", "throw", "throwModuleNotFound"}

\* Outcomes of a network call (the DNS query of handleDig, the edit of editDeferred).
CallOutcomes == {"ok", "fail"}

\* err.code of the errors the model distinguishes.
errCode(err) ==
    IF err \in {"ModuleNotFound", "HandlerModuleNotFound"} THEN "MODULE_NOT_FOUND" ELSE "none"

----------------------------------------------------------------------------
\* State

NewRequest ==
    [pc |-> "idle",
     method |-> "none", path |-> "none", body |-> NoBody,
     token |-> 0,               \* the interaction's identity / token
     verified |-> "none",       \* what verify returned
     sentryBody |-> "none",     \* sentry.setRequestBody: "text" or "json"
     tag |-> "none",            \* sentry scope tag: "command" or "component"
     lookedUp |-> FALSE,        \* commands[body.data.id] was evaluated
     loadResult |-> "none",     \* outcome of import() of the handler module
     executed |-> FALSE,        \* the handler's execute was called
     execReturn |-> NoResponse, \* the value execute resolved with
     execErr |-> "none",        \* the exception execute rejected with
     calls |-> <<>>,            \* the calls execute of dig made, in order
     err |-> "none",            \* the exception in flight on the request path
     resp |-> NoResponse,       \* the Response the request path resolved with
     responses |-> 0,           \* responses delivered through event.respondWith
     rejected |-> "none",       \* the error the respondWith promise rejected with
     reported |-> <<>>,         \* exceptions passed to captureException, in order
     bg |-> "none",             \* position of the background task
     waitP |-> "none",          \* the promise handed to wait (event.waitUntil)
     waitErr |-> "none",        \* the error that promise rejected with
     edits |-> <<>>,            \* editDeferred calls issued, in order
     fallbackEdit |-> "none"]   \* the fallback edit: "inflight", "ok", "swallowed"

Init ==
    /\ req = [r \in Reqs |-> NewRequest]
    /\ patchDepth = 0

\* captureException(err, sentry)
captureException(q, err) == [q EXCEPT !.reported = Append(@, err)]

\* The request path resolves with a Response.
returns(q, response) == [q EXCEPT !.pc = "returning", !.resp = response]

\* The request path rejects with err.
throws(q, err) == [q EXCEPT !.pc = "rejecting", !.err = err]

----------------------------------------------------------------------------
\* handleRequest: routes other than POST /interactions

ApologyEnvelope ==
    Envelope("ChannelMessageWithSource",
             "An unexpected error occurred when executing the command.", "Ephemeral")

PongEnvelope == Envelope("Pong", "none", "none")

DeferredEnvelope == Envelope("DeferredChannelMessageWithSource", "none", "none")

routeResponse(method, path) ==
    IF method # "GET" THEN emptyResponse(404)
    ELSE IF path = "/health"
        THEN Response(200, "text", "none", "OK", "none", "text/plain, no-store")
    ELSE IF path = "/privacy"
        THEN Response(200, "text", "none", "Privacy", "none", "text/plain")
    ELSE IF path = "/terms"
        THEN Response(200, "text", "none", "Terms", "none", "text/plain")
    ELSE IF path = "/invite"
        THEN redirectResponse("https://discord.com/oauth2/authorize")
    ELSE IF path = "/server"
        THEN redirectResponse("https://discord.gg/JgxVfGn")
    ELSE IF path = "/github"
        THEN redirectResponse("https://github.com/MattIPv4/DNS-over-Discord")
    ELSE IF path = "/"
        THEN redirectResponse("https://developers.cloudflare.com/1.1.1.1")
    ELSE emptyResponse(404)

\* The fetch listener up to the first suspension of handleRequest: the observability
\* client is created and its prototypes patched, then handleRequest either answers
\* synchronously or enters handleInteraction, which suspends on request.text().
\* Events are numbered in the order they arrive.
FetchEvent(r) ==
    /\ req[r].pc = "idle"
    /\ IF r = 1 THEN TRUE ELSE req[r - 1].pc # "idle"
    /\ patchDepth' = patchDepth + 1
    /\ \E request \in Requests :
        LET q == [req[r] EXCEPT !.method = request.method, !.path = request.path] IN
        req' = [req EXCEPT ![r] =
                    IF request.method = "POST" /\ request.path = "/interactions"
                        THEN [q EXCEPT !.pc = "awaitText"]
                        ELSE returns(q, routeResponse(request.method, request.path))]

----------------------------------------------------------------------------
\* handleInteraction

\* request.text() resolves with the raw body; handleInteraction records it with the
\* observability client and calls verify, on which it suspends.
TextRead(r) ==
    /\ req[r].pc = "awaitText"
    /\ req' = [req EXCEPT ![r] = [@ EXCEPT !.pc = "awaitVerify", !.sentryBody = "text"]]
    /\ UNCHANGED patchDepth

\* The response to a request whose signature does not verify.
verificationFailure == emptyResponse(401)

\* A gate that lets every request through.
passesAnyVerification(result) == TRUE

\* if (!await verify(request, bodyText)) return ...
passesVerification(result) == result

\* commands[body.data.id]: a JavaScript property lookup, which also finds the
\* properties the table inherits from Object.prototype (none of which has a file).
commandData(id) ==
    IF id \in DOMAIN commands THEN [truthy |-> TRUE, file |-> commands[id].file]
    ELSE IF id \in ObjectPrototypeKeys THEN [truthy |-> TRUE, file |-> "undefined"]
    ELSE [truthy |-> FALSE, file |-> "undefined"]

\* handleCommandInteraction reading body.data?.name and body.data?.id: a missing
\* data field is an unknown command.
handleCommandInteractionTolerant(q) ==
    LET t == [q EXCEPT !.tag = "command", !.lookedUp = TRUE] IN
    IF q.body.data = "absent" \/ ~commandData(q.body.id).truthy
        THEN returns(t, emptyResponse(404))
        ELSE [t EXCEPT !.pc = "awaitCommandImport"]

\* handleCommandInteraction up to its suspension on import(): the scope is tagged
\* (body.data.name throws when body.data is missing), the command is located.
handleCommandInteraction(q) ==
    IF q.body.data = "absent" THEN throws(q, "TypeError")
    ELSE LET t == [q EXCEPT !.tag = "command", !.lookedUp = TRUE] IN
         IF ~commandData(q.body.id).truthy
             THEN returns(t, emptyResponse(404))
             ELSE [t EXCEPT !.pc = "awaitCommandImport"]

\* handleComponentInteraction up to its suspension on import().
handleComponentInteraction(q) ==
    IF q.body.data = "absent" THEN throws(q, "TypeError")
    ELSE [q EXCEPT !.tag = "component", !.pc = "awaitComponentImport"]

\* A switch without the Ping case: a Ping falls through to the default.
dispatchWithoutPing(q) ==
    IF q.body.form = "notjson" THEN throws(q, "SyntaxError")
    ELSE LET j == [q EXCEPT !.sentryBody = "json"] IN
         IF q.body.form = "null" THEN throws(j, "TypeError")
         ELSE IF q.body.type = "ApplicationCommand" THEN handleCommandInteraction(j)
         ELSE IF q.body.type = "MessageComponent" THEN handleComponentInteraction(j)
         ELSE returns(j, emptyResponse(501))

\* A switch whose default treats the interaction as a command.
dispatchDefaultsToCommand(q) ==
    IF q.body.form = "notjson" THEN throws(q, "SyntaxError")
    ELSE LET j == [q EXCEPT !.sentryBody = "json"] IN
         IF q.body.form = "null" THEN throws(j, "TypeError")
         ELSE IF q.body.type = "Ping" THEN returns(j, jsonResponse(PongEnvelope))
         ELSE IF q.body.type = "MessageComponent" THEN handleComponentInteraction(j)
         ELSE handleCommandInteraction(j)

\* handleInteraction after a successful verification: parse, then switch on body.type.
dispatch(q) ==
    IF q.body.form = "notjson" THEN throws(q, "SyntaxError")
    ELSE LET j == [q EXCEPT !.sentryBody = "json"] IN
         IF q.body.form = "null" THEN throws(j, "TypeError")
         ELSE IF q.body.type = "Ping" THEN returns(j, jsonResponse(PongEnvelope))
         ELSE IF q.body.type = "ApplicationCommand" THEN handleCommandInteraction(j)
         ELSE IF q.body.type = "MessageComponent" THEN handleComponentInteraction(j)
         ELSE returns(j, emptyResponse(501))

\* handleInteraction with JSON.parse moved before the verification.
VerifyReturnParsesFirst(r) ==
    /\ req[r].pc = "awaitVerify"
    /\ \E sig \in Sigs, body \in Bodies :
       LET result == verify(sig)
           q == [req[r] EXCEPT !.body = body, !.token = r,
                               !.verified = IF result THEN "true" ELSE "false"] IN
        req' = [req EXCEPT ![r] =
                    IF body.form = "notjson" THEN throws(q, "SyntaxError")
                    ELSE IF result THEN dispatch(q)
                    ELSE returns(q, verificationFailure)]
    /\ UNCHANGED patchDepth

\* verify settles and handleInteraction resumes.  The signature headers and the body
\* text of the request are drawn here, where the code first looks at them; the
\* interaction the body carries has the token of this event.
VerifyReturn(r) ==
    /\ req[r].pc = "awaitVerify"
    /\ \E sig \in Sigs, body \in Bodies :
       LET result == verify(sig)
           q == [req[r] EXCEPT !.body = body, !.token = r,
                               !.verified = IF result THEN "true" ELSE "false"] IN
        req' = [req EXCEPT ![r] =
                    IF passesVerification(result) THEN dispatch(q)
                    ELSE returns(q, verificationFailure)]
    /\ UNCHANGED patchDepth

----------------------------------------------------------------------------
\* The dig command (commands/dig.js)

FallbackMessage == "Sorry, something went wrong when processing your DNS query"

ValidationErrorEnvelope == Envelope("ChannelMessageWithSource", "invalid domain", "none")

HandlerEnvelope == Envelope("ChannelMessageWithSource", "handler output", "none")

\* An edit issued against the interaction most recently received, as when the
\* interaction is kept in a variable shared by the requests instead of the closure.
editDeferredOfLatest(q, kind, content) ==
    LET latest == CHOOSE t \in {req[o].token : o \in Reqs} :
                        \A o \in Reqs : req[o].token <= t IN
    [q EXCEPT !.edits = Append(@, [kind |-> kind, token |-> latest, content |-> content])]

\* editDeferred(interaction, data): the call is issued against the interaction's token.
editDeferred(q, kind, content) ==
    [q EXCEPT !.edits = Append(@, [kind |-> kind, token |-> q.token, content |-> content])]

\* execute of dig awaiting the work it scheduled before it returns the envelope.
executeAwaitsWork(q) ==
    LET x == [q EXCEPT !.executed = TRUE] IN
    IF q.body.options = "absent" THEN [x EXCEPT !.execErr = "TypeError"]
    ELSE IF q.body.options = "invalidDomain"
        THEN [x EXCEPT !.calls = <<"validateDomain">>,
                       !.execReturn = jsonResponse(ValidationErrorEnvelope)]
    ELSE [x EXCEPT !.calls = <<"validateDomain", "handleDig", "wait">>,
                   !.bg = "dns", !.waitP = "pending"]

\* execute of dig answering with the deferred envelope before it has validated the
\* domain, the validation being left to the caller of handleDig.
executeDefersValidation(q) ==
    LET x == [q EXCEPT !.executed = TRUE] IN
    IF q.body.options = "absent" THEN [x EXCEPT !.execErr = "TypeError"]
    ELSE IF q.body.options = "invalidDomain"
        THEN [x EXCEPT !.calls = <<"validateDomain", "response">>,
                       !.execReturn = jsonResponse(DeferredEnvelope)]
    ELSE [x EXCEPT !.calls = <<"validateDomain", "handleDig", "wait", "response">>,
                   !.bg = "dns", !.waitP = "pending",
                   !.execReturn = jsonResponse(DeferredEnvelope)]

\* execute of dig, which has no suspension point of its own: it runs to its return in
\* one synchronous section.  interaction.data.options.find throws when options is
\* missing; a domain that fails validation returns the validation error; otherwise the
\* async function handed to wait starts (it calls handleDig and suspends on it), the
\* promise is handed to wait, and the deferred envelope is returned.  calls lists, in
\* the order of the code, validateDomain, handleDig, wait and the response(...) that
\* builds the deferred envelope.
execute(q) ==
    LET x == [q EXCEPT !.executed = TRUE] IN
    IF q.body.options = "absent" THEN [x EXCEPT !.execErr = "TypeError"]
    ELSE IF q.body.options = "invalidDomain"
        THEN [x EXCEPT !.calls = <<"validateDomain">>,
                       !.execReturn = jsonResponse(ValidationErrorEnvelope)]
    ELSE [x EXCEPT !.calls = <<"validateDomain", "handleDig", "wait", "response">>,
                   !.bg = "dns", !.waitP = "pending",
                   !.execReturn = jsonResponse(DeferredEnvelope)]

\* execute of a command other than dig: it returns an envelope or throws.
otherExecute(q, outcome) ==
    LET x == [q EXCEPT !.executed = TRUE] IN
    IF outcome = "ok" THEN [x EXCEPT !.execReturn = jsonResponse(HandlerEnvelope)]
    ELSE [x EXCEPT !.execErr = "HandlerError"]

\* A catch handler that retries the edit with the fallback message until it is through.
backgroundCatchRetries(q, err) ==
    LET c == editDeferred(editDeferred(captureException(q, err), "fallback",
                                       FallbackMessage), "fallback", FallbackMessage) IN
    [c EXCEPT !.bg = "failed", !.fallbackEdit = "inflight",
              !.waitP = "rejected", !.waitErr = err]

\* A catch handler without the re-throw: the promise handed to wait is fulfilled.
backgroundCatchSwallows(q, err) ==
    LET c == editDeferred(captureException(q, err), "fallback", FallbackMessage) IN
    [c EXCEPT !.bg = "failed", !.fallbackEdit = "inflight", !.waitP = "fulfilled"]

\* A catch handler that tells the user and re-throws but reports nothing.
backgroundCatchUnreported(q, err) ==
    LET c == editDeferred(q, "fallback", FallbackMessage) IN
    [c EXCEPT !.bg = "failed", !.fallbackEdit = "inflight",
              !.waitP = "rejected", !.waitErr = err]

\* The catch handler of the promise handed to wait: report, issue the fallback edit
\* (whose own failure is ignored), re-throw.
backgroundCatch(q, err) ==
    LET c == editDeferred(captureException(q, err), "fallback", FallbackMessage) IN
    [c EXCEPT !.bg = "failed", !.fallbackEdit = "inflight",
              !.waitP = "rejected", !.waitErr = err]

\* handleDig settles; on success the async function goes on to issue the edit of the
\* deferred response and suspends on it, on failure its promise rejects.
DigSettle(r) ==
    /\ req[r].bg = "dns"
    /\ \E outcome \in CallOutcomes :
        req' = [req EXCEPT ![r] =
                    IF outcome = "ok"
                        THEN [editDeferred(@, "success", "embed") EXCEPT !.bg = "edit"]
                        ELSE backgroundCatch(@, "DnsError")]
    /\ UNCHANGED patchDepth

\* The edit of the deferred response settles.
EditSettle(r) ==
    /\ req[r].bg = "edit"
    /\ \E outcome \in CallOutcomes :
        req' = [req EXCEPT ![r] =
                    IF outcome = "ok"
                        THEN [@ EXCEPT !.bg = "completed", !.waitP = "fulfilled"]
                        ELSE backgroundCatch(@, "EditError")]
    /\ UNCHANGED patchDepth

\* The fallback edit awaited inside the catch handler without a catch of its own: its
\* failure is reported and replaces the error the promise handed to wait rejects with.
FallbackSettleUncaught(r) ==
    /\ req[r].fallbackEdit = "inflight"
    /\ \E outcome \in CallOutcomes :
        req' = [req EXCEPT ![r] =
                    IF outcome = "ok" THEN [@ EXCEPT !.fallbackEdit = "ok"]
                    ELSE [captureException(@, "FallbackEditError") EXCEPT
                                !.fallbackEdit = "swallowed",
                                !.waitErr = "FallbackEditError"]]
    /\ UNCHANGED patchDepth

\* The fallback edit settles; .catch(() => {}) ignores its failure.
FallbackSettle(r) ==
    /\ req[r].fallbackEdit = "inflight"
    /\ \E outcome \in CallOutcomes :
        req' = [req EXCEPT ![r].fallbackEdit = IF outcome = "ok" THEN "ok" ELSE "swallowed"]
    /\ UNCHANGED patchDepth

----------------------------------------------------------------------------
\* handleCommandInteraction and handleComponentInteraction after import()

\* A catch block that reports and re-throws.
commandCatchRethrows(q, err) == throws(captureException(q, err), err)

\* catch (err) of handleCommandInteraction
commandCatch(q, err) ==
    returns(captureException(q, err), jsonResponse(ApologyEnvelope))

\* A test for the code of a missing file instead of a missing module.
isFileNotFound(err) == errCode(err) = "ENOENT"

\* if (err.code === 'MODULE_NOT_FOUND')
isModuleNotFound(err) == errCode(err) = "MODULE_NOT_FOUND"

\* catch (err) of handleComponentInteraction
componentCatch(q, err) ==
    IF isModuleNotFound(err) THEN returns(q, emptyResponse(404))
    ELSE returns(captureException(q, err), emptyResponse(500))

\* import() of the command module settles.  A module that loads is executed at once;
\* a failed load lands in the catch block.
CommandImportSettle(r) ==
    /\ req[r].pc = "awaitCommandImport"
    /\ LET file == commandData(req[r].body.id).file IN
       \E load \in CommandLoads, outcome \in CommandExecutes :
        /\ file = "undefined" => load = "loadError"
        /\ req' = [req EXCEPT ![r] =
            IF load = "loaded"
                THEN LET l == [@ EXCEPT !.loadResult = "loaded",
                                        !.pc = "awaitCommandExecute"] IN
                     IF file = "dig.js" THEN execute(l) ELSE otherExecute(l, outcome)
                ELSE commandCatch([@ EXCEPT !.loadResult =
                                        IF file = "undefined" THEN "notfound" ELSE load],
                                  IF file = "undefined" THEN "ModuleNotFound"
                                                        ELSE "LoadError")]
    /\ UNCHANGED patchDepth

\* return await command.execute(...)
CommandResume(r) ==
    /\ req[r].pc = "awaitCommandExecute"
    /\ req' = [req EXCEPT ![r] =
                IF @.execErr # "none" THEN commandCatch(@, @.execErr)
                ELSE returns(@, @.execReturn)]
    /\ UNCHANGED patchDepth

\* execute of a component handler: it returns an envelope or throws, possibly an error
\* that itself carries the code MODULE_NOT_FOUND (a failed import inside the handler).
componentExecute(q, outcome) ==
    LET x == [q EXCEPT !.executed = TRUE] IN
    IF outcome = "ok" THEN [x EXCEPT !.execReturn = jsonResponse(HandlerEnvelope)]
    ELSE IF outcome = "throw" THEN [x EXCEPT !.execErr = "HandlerError"]
    ELSE [x EXCEPT !.execErr = "HandlerModuleNotFound"]

\* import() of the component module settles.
ComponentImportSettle(r) ==
    /\ req[r].pc = "awaitComponentImport"
    /\ \E load \in ComponentLoads, outcome \in ComponentExecutes :
        req' = [req EXCEPT ![r] =
            IF load = "loaded"
                THEN componentExecute([@ EXCEPT !.loadResult = "loaded",
                                                !.pc = "awaitComponentExecute"], outcome)
                ELSE componentCatch([@ EXCEPT !.loadResult = load],
                                    IF load = "notfound" THEN "ModuleNotFound"
                                                         ELSE "LoadError")]
    /\ UNCHANGED patchDepth

\* return await component.execute(...)
ComponentResume(r) ==
    /\ req[r].pc = "awaitComponentExecute"
    /\ req' = [req EXCEPT ![r] =
                IF @.execErr # "none" THEN componentCatch(@, @.execErr)
                ELSE returns(@, @.execReturn)]
    /\ UNCHANGED patchDepth

----------------------------------------------------------------------------
\* The fetch listener's respondWith

\* The request path resolved: the Response reaches event.respondWith.
Respond(r) ==
    /\ req[r].pc = "returning"
    /\ req' = [req EXCEPT ![r] = [@ EXCEPT !.pc = "done", !.responses = @ + 1]]
    /\ UNCHANGED patchDepth

\* The request path rejected: .catch reports the error and re-throws it.
topLevelCatch(q) ==
    [captureException(q, q.err) EXCEPT !.pc = "done", !.rejected = q.err]

RespondRejected(r) ==
    /\ req[r].pc = "rejecting"
    /\ req' = [req EXCEPT ![r] = topLevelCatch(@)]
    /\ UNCHANGED patchDepth

----------------------------------------------------------------------------

Next ==
    \E r \in Reqs :
        \/ FetchEvent(r)
        \/ TextRead(r)
        \/ VerifyReturn(r)
        \/ CommandImportSettle(r)
        \/ CommandResume(r)
        \/ ComponentImportSettle(r)
        \/ ComponentResume(r)
        \/ DigSettle(r)
        \/ EditSettle(r)
        \/ FallbackSettle(r)
        \/ Respond(r)
        \/ RespondRejected(r)

Spec == Init /\ [][Next]_vars

\* Every external call made for a background task (the DNS query, the edit of the
\* deferred response, the fallback edit) eventually returns or fails.
FairSpec ==
    /\ Spec
    /\ \A r \in Reqs :
        /\ WF_vars(DigSettle(r))
        /\ WF_vars(EditSettle(r))
        /\ WF_vars(FallbackSettle(r))

----------------------------------------------------------------------------
\* Properties

\* The request path of r has produced its Response.
Answered(r) == req[r].pc \in {"returning", "done"}

\* Number of editDeferred calls of a kind issued for r.
editCount(r, kind) ==
    Cardinality({i \in 1..Len(req[r].edits) : req[r].edits[i].kind = kind})

\* C1: a POST /interactions request for which verify returned false is answered at
\* once with status 401 and an empty body, whatever its body is, and nothing is
\* reported: neither by a handler nor by the top-level catch, as the request path
\* does not reject.
C1_VerificationFailure ==
    \A r \in Reqs :
        req[r].verified = "false" =>
            /\ Answered(r)
            /\ req[r].resp = emptyResponse(401)
            /\ req[r].reported = <<>>
            /\ req[r].err = "none" /\ req[r].rejected = "none"
            /\ req[r].pc = "done" => req[r].responses = 1

\* A request with a body that is not JSON and a bad signature was answered.
C1_Witness ==
    \E r \in Reqs :
        /\ req[r].verified = "false" /\ req[r].body.form = "notjson"
        /\ req[r].pc = "done" /\ req[r].resp.status = 401

\* The interaction of r has gone past the gate: it was parsed and classified, looked
\* up, its handler loaded or executed, or a background task scheduled for it.
Dispatched(r) ==
    \/ req[r].sentryBody = "json"
    \/ req[r].tag # "none"
    \/ req[r].lookedUp
    \/ req[r].loadResult # "none"
    \/ req[r].executed
    \/ req[r].bg # "none" \/ req[r].waitP # "none" \/ req[r].edits # <<>>
    \/ req[r].pc \in {"awaitCommandImport", "awaitComponentImport",
                      "awaitCommandExecute", "awaitComponentExecute", "rejecting"}

\* C2: an interaction is dispatched only after verify returned true for its request,
\* and after a failed verification the only step left for the request is the
\* delivery of the 401.
C2_Gate ==
    /\ [](\A r \in Reqs : Dispatched(r) => req[r].verified = "true")
    /\ [][\A r \in Reqs :
            req[r].verified = "false" =>
                \/ req'[r] = req[r]
                \/ /\ req[r].pc = "returning"
                   /\ req'[r] = [req[r] EXCEPT !.pc = "done", !.responses = 1]]_vars

\* One request was refused and one dispatched to a handler that was executed.
C2_Witness ==
    \E r, o \in Reqs :
        /\ req[r].verified = "false" /\ req[r].pc = "done"
        /\ req[o].verified = "true" /\ req[o].executed /\ req[o].bg # "none"

\* C3: once execute of dig has scheduled the background task it has returned the
\* deferred envelope to the router, and no edit is issued for an interaction before
\* execute has produced that envelope.
C3_DeferredEnvelopeFirst ==
    \A r \in Reqs :
        (req[r].bg # "none" \/ req[r].edits # <<>>) =>
            /\ req[r].execReturn = jsonResponse(DeferredEnvelope)
            /\ Answered(r) => req[r].resp = jsonResponse(DeferredEnvelope)

\* The background work was so short that an edit was issued while
\* handleCommandInteraction had not yet resumed from its await of execute.
C3_Witness ==
    \E r \in Reqs :
        /\ req[r].pc = "awaitCommandExecute"
        /\ req[r].edits # <<>>
        /\ req[r].execReturn = jsonResponse(DeferredEnvelope)

\* C4: no edit is issued for an interaction before its ack has been delivered to the
\* caller through respondWith.
C4_EditAfterAckDelivered ==
    \A r \in Reqs :
        req[r].edits # <<>> => (req[r].pc = "done" /\ req[r].responses = 1)

\* C5 as stated: for every interaction whose handler was executed at most one edit
\* call is issued, and exactly one response is returned on the request path.
C5_AtMostOneEdit ==
    \A r \in Reqs :
        /\ Len(req[r].edits) <= 1
        /\ (req[r].executed /\ req[r].pc = "done") => req[r].responses = 1

\* C5 as amended: at most one success edit and at most one fallback edit are issued,
\* the success edit first; a second edit call is issued exactly when the success edit
\* itself failed, and no fallback edit is issued while the task has not failed.
\* Exactly one response is returned on the request path.
C5_AtMostOneEditPerKind ==
    \A r \in Reqs :
        /\ editCount(r, "success") <= 1 /\ editCount(r, "fallback") <= 1
        /\ Len(req[r].edits) = 2 <=>
                (req[r].bg = "failed" /\ req[r].waitErr = "EditError")
        /\ Len(req[r].edits) = 2 =>
                (req[r].edits[1].kind = "success" /\ req[r].edits[2].kind = "fallback")
        /\ editCount(r, "fallback") = 1 <=> req[r].bg = "failed"
        /\ (req[r].executed /\ req[r].pc = "done") => req[r].responses = 1

\* The DNS work succeeded, the success edit failed, the fallback edit was issued and
\* the ack was delivered.
C5_Witness ==
    \E r \in Reqs :
        /\ Len(req[r].edits) = 2 /\ req[r].waitErr = "EditError"
        /\ req[r].pc = "done" /\ req[r].responses = 1

\* The exception the background work of r threw: that of the success edit when the
\* edit had been issued, that of the DNS query otherwise.
thrown(r) == IF editCount(r, "success") = 1 THEN "EditError" ELSE "DnsError"

\* C6: when the background work of a deferred task has thrown, exactly one fallback
\* edit with the fixed message has been issued (against the task's own interaction),
\* the exception thrown has been reported, once, and the promise handed to wait has
\* rejected with that exception.
C6_BackgroundFailure ==
    \A r \in Reqs :
        req[r].bg = "failed" =>
            /\ editCount(r, "fallback") = 1
            /\ req[r].edits[Len(req[r].edits)] =
                    [kind |-> "fallback", token |-> req[r].token,
                     content |-> FallbackMessage]
            /\ req[r].reported = <<thrown(r)>>
            /\ req[r].waitP = "rejected" /\ req[r].waitErr = thrown(r)

\* The DNS query failed and the fallback edit settled.
C6_Witness ==
    \E r \in Reqs :
        /\ req[r].bg = "failed" /\ req[r].waitErr = "DnsError"
        /\ req[r].fallbackEdit = "ok"

\* C7: a Component interaction whose handler module loaded and whose execute threw
\* is answered with status 500 and an empty body, and the error is reported once.
C7_ComponentExecutionFailure ==
    \A r \in Reqs :
        (/\ req[r].tag = "component" /\ req[r].loadResult = "loaded"
         /\ req[r].execErr # "none" /\ Answered(r)) =>
            /\ req[r].resp = emptyResponse(500)
            /\ req[r].reported = <<req[r].execErr>>

\* C8: a verified Component interaction whose module does not resolve is answered
\* with status 404 and an empty body; no handler is executed, nothing is reported.
C8_ComponentNotFound ==
    \A r \in Reqs :
        (req[r].tag = "component" /\ req[r].loadResult = "notfound") =>
            /\ req[r].verified = "true"
            /\ Answered(r)
            /\ req[r].resp = emptyResponse(404)
            /\ ~req[r].executed /\ req[r].execErr = "none"
            /\ req[r].reported = <<>> /\ req[r].rejected = "none"

\* The 404 of a stale custom_id was delivered.
C8_Witness ==
    \E r \in Reqs :
        /\ req[r].tag = "component" /\ req[r].loadResult = "notfound"
        /\ req[r].pc = "done" /\ req[r].responses = 1

\* The command of r is a key of the command table.
Registered(r) == req[r].tag = "command" /\ req[r].body.id \in DOMAIN commands

\* The exception the handler of r raised during load or execute.
raised(r) ==
    IF req[r].loadResult = "loadError" THEN "LoadError" ELSE req[r].execErr

\* C9: when the handler of a registered command raised during load or execute and
\* handleCommandInteraction has resumed, the exception has been reported exactly
\* once, the response is the 200 envelope ChannelMessageWithSource with the apology
\* and the ephemeral flag, and the request path does not reject.
C9_CommandFailure ==
    \A r \in Reqs :
        (Registered(r) /\ raised(r) # "none") =>
            /\ req[r].pc \in {"awaitCommandExecute", "returning", "done"}
            /\ req[r].err = "none" /\ req[r].rejected = "none"
            /\ Answered(r) =>
                /\ req[r].resp = jsonResponse(ApologyEnvelope)
                /\ req[r].resp.status = 200
                /\ req[r].reported = <<raised(r)>>

\* The apology was delivered after execute threw, and, for another request, after
\* the load failed.
C9_Witness ==
    \E r, o \in Reqs :
        /\ Registered(r) /\ req[r].execErr = "TypeError" /\ req[r].pc = "done"
        /\ Registered(o) /\ req[o].loadResult = "loadError" /\ req[o].pc = "done"

\* C10: a verified Command interaction whose data.id is not a key of the command
\* table is answered with status 404 and an empty body; no handler is loaded or
\* executed, no background task is scheduled, nothing is reported.
C10_CommandNotFound ==
    \A r \in Reqs :
        (/\ req[r].tag = "command" /\ req[r].body.id \notin DOMAIN commands
         /\ Answered(r)) =>
            /\ req[r].verified = "true"
            /\ req[r].resp = emptyResponse(404)
            /\ req[r].loadResult = "none" /\ ~req[r].executed
            /\ req[r].bg = "none" /\ req[r].waitP = "none"
            /\ req[r].reported = <<>>

\* The body of r is an interaction of the given type whose signature verified.
VerifiedOfType(r, type) ==
    req[r].verified = "true" /\ req[r].body.form = "object" /\ req[r].body.type = type

\* C11: a verified Ping is answered at once with a 200 response whose envelope type
\* is Pong; the command table is not looked up, no handler is loaded or executed and
\* no background task is scheduled, so the answer rests on no registry content.
C11_Ping ==
    \A r \in Reqs :
        VerifiedOfType(r, "Ping") =>
            /\ Answered(r)
            /\ req[r].resp = jsonResponse(PongEnvelope)
            /\ req[r].resp.status = 200 /\ req[r].resp.type = "Pong"
            /\ ~req[r].lookedUp /\ req[r].loadResult = "none" /\ ~req[r].executed
            /\ req[r].bg = "none" /\ req[r].waitP = "none"
            /\ req[r].reported = <<>>

\* The Pong was delivered.
C11_Witness ==
    \E r \in Reqs :
        VerifiedOfType(r, "Ping") /\ req[r].pc = "done" /\ req[r].responses = 1

\* C12: a verified interaction of a type other than Ping, Command and Component is
\* answered with status 501 and an empty body; no handler is executed and nothing
\* is reported.
C12_Unimplemented ==
    \A r \in Reqs :
        VerifiedOfType(r, "Other") =>
            /\ Answered(r)
            /\ req[r].resp = emptyResponse(501)
            /\ req[r].loadResult = "none" /\ ~req[r].executed
            /\ req[r].reported = <<>> /\ req[r].rejected = "none"

\* The 501 was delivered.
C12_Witness ==
    \E r \in Reqs :
        VerifiedOfType(r, "Other") /\ req[r].pc = "done" /\ req[r].responses = 1

\* C13: every edit call, success or fallback, issued by the background task of an
\* interaction is issued against that interaction's own token, whatever the other
\* interactions in flight are doing.
C13_OwnToken ==
    \A r \in Reqs :
        \A i \in 1..Len(req[r].edits) :
            /\ req[r].edits[i].token = req[r].token
            /\ \A o \in Reqs \ {r} : req[r].edits[i].token # req[o].token

\* Two deferred interactions whose background tasks are in flight together: the later
\* one has issued its success edit, the earlier one then its fallback edit.
C13_Witness ==
    \E a, b \in Reqs :
        /\ a < b
        /\ req[b].bg = "edit" /\ Len(req[b].edits) = 1
        /\ req[a].bg = "failed" /\ req[a].fallbackEdit = "inflight"

\* The promise handed to wait for the task of r has settled.
Settled(r) == req[r].waitP \in {"fulfilled", "rejected"}

\* C14: when every external call eventually returns or fails, every background task
\* that was scheduled eventually settles; and a settled task either completed its
\* work and its success edit with nothing reported, or failed with its failure
\* reported exactly once, never both.
C14_TaskSettles ==
    /\ \A r \in Reqs : (req[r].waitP = "pending") ~> Settled(r)
    /\ [](\A r \in Reqs :
            Settled(r) =>
                \/ /\ req[r].waitP = "fulfilled" /\ req[r].bg = "completed"
                   /\ req[r].edits = <<[kind |-> "success", token |-> req[r].token,
                                        content |-> "embed"]>>
                   /\ req[r].reported = <<>>
                \/ /\ req[r].waitP = "rejected" /\ req[r].bg = "failed"
                   /\ Len(req[r].reported) = 1)

\* One task completed and another failed.
C14_Witness ==
    \E a, b \in Reqs :
        /\ req[a].waitP = "fulfilled" /\ req[a].bg = "completed"
        /\ req[b].waitP = "rejected" /\ Len(req[b].reported) = 1

\* C15: the promise handed to wait does not settle while a call made for the task
\* (the DNS query, the success edit, the fallback edit) is still in flight.
C15_SettlesAfterAllCalls ==
    \A r \in Reqs :
        Settled(r) =>
            /\ req[r].bg \notin {"dns", "edit"}
            /\ req[r].fallbackEdit # "inflight"

\* The positions of a call in the calls of execute.
positions(r, call) == {i \in 1..Len(req[r].calls) : req[r].calls[i] = call}

\* C16: the DNS query of a deferred interaction is not started before the deferred
\* envelope has been produced for that interaction (Acked precedes Working).
C16_AckBeforeWork ==
    \A r \in Reqs :
        \A w \in positions(r, "handleDig") :
            \E a \in positions(r, "response") : a < w

\* The body of r makes the request path throw: it is not JSON, it is the JSON value
\* null, or it is a Command or Component interaction without a data field.
Malformed(r) ==
    \/ req[r].body.form \in {"notjson", "null"}
    \/ /\ req[r].body.type \in {"ApplicationCommand", "MessageComponent"}
       /\ req[r].body.data = "absent"

\* C17 as stated: every POST /interactions request whose signature verified ends
\* with exactly one response, of status 200, 404, 500 or 501, whatever its body is,
\* and the request path never rejects.
C17_AlwaysResponds ==
    \A r \in Reqs :
        req[r].verified = "true" =>
            /\ req[r].pc # "rejecting" /\ req[r].rejected = "none"
            /\ req[r].pc = "done" =>
                    (req[r].responses = 1 /\ req[r].resp.status \in {200, 404, 500, 501})

\* C17 as amended: a verified request whose body is a JSON object with the data
\* field its type needs ends with exactly one response, of status 200, 404, 500 or
\* 501, and its request path does not reject; a verified request whose body is not
\* JSON, is null, or is a Command or Component without data ends with no response:
\* its request path rejects, the top-level catch reports the error once and
\* re-throws it.
C17_VerifiedOutcome ==
    \A r \in Reqs :
        (req[r].verified = "true" /\ req[r].pc = "done") =>
            IF Malformed(r)
                THEN /\ req[r].rejected \in {"SyntaxError", "TypeError"}
                     /\ req[r].reported = <<req[r].rejected>>
                     /\ req[r].responses = 0 /\ req[r].resp = NoResponse
                ELSE /\ req[r].rejected = "none"
                     /\ req[r].responses = 1
                     /\ req[r].resp.status \in {200, 404, 500, 501}

\* A verified Command without data was rejected and a verified well-formed
\* interaction answered.
C17_Witness ==
    \E a, b \in Reqs :
        /\ req[a].verified = "true" /\ req[a].pc = "done"
        /\ req[a].body.type = "ApplicationCommand" /\ req[a].body.data = "absent"
        /\ req[a].rejected = "TypeError"
        /\ req[b].verified = "true" /\ req[b].pc = "done" /\ ~Malformed(b)
        /\ req[b].responses = 1

\* C18: when the fallback edit of a failed task has itself failed, nothing more is
\* reported than the original exception, no further edit has been issued, and the
\* promise handed to wait stays rejected with the original exception.
C18_FallbackFailureSwallowed ==
    \A r \in Reqs :
        req[r].fallbackEdit = "swallowed" =>
            /\ req[r].reported = <<thrown(r)>>
            /\ editCount(r, "fallback") = 1
            /\ Len(req[r].edits) = editCount(r, "success") + 1
            /\ req[r].waitP = "rejected" /\ req[r].waitErr = thrown(r)
            /\ req[r].bg = "failed"

\* The DNS query failed and then the fallback edit failed.
C18_Witness ==
    \E r \in Reqs :
        /\ req[r].fallbackEdit = "swallowed" /\ req[r].waitErr = "DnsError"
        /\ req[r].pc = "done"

\* C19: handling a request leaves the state shared between requests as it was; in
\* particular, once the observability client's shared prototypes have been patched,
\* they are the same after a later request as they were before it.
C19_SharedStateUnchanged == [][patchDepth >= 1 => patchDepth' = patchDepth]_vars

\* C20: execute of dig returns the deferred envelope exactly when it scheduled one
\* background task; when the domain fails validation it returns the validation
\* error, schedules no task and no edit is ever issued; and for every deferred
\* envelope returned the task eventually issues an edit.
C20_DeferredIffScheduled ==
    /\ [](\A r \in Reqs :
            /\ req[r].execReturn = jsonResponse(DeferredEnvelope)
                    <=> Cardinality(positions(r, "wait")) = 1
            /\ Cardinality(positions(r, "wait")) <= 1
            /\ Cardinality(positions(r, "wait")) = 1 <=> req[r].waitP # "none"
            /\ (req[r].executed /\ req[r].body.options = "invalidDomain") =>
                    /\ req[r].execReturn = jsonResponse(ValidationErrorEnvelope)
                    /\ req[r].waitP = "none" /\ req[r].bg = "none"
                    /\ req[r].edits = <<>>)
    /\ \A r \in Reqs :
            (req[r].execReturn = jsonResponse(DeferredEnvelope)) ~> (req[r].edits # <<>>)

\* A validation error was delivered for one interaction and the edit of a deferred
\* one was issued.
C20_Witness ==
    \E a, b \in Reqs :
        /\ req[a].execReturn = jsonResponse(ValidationErrorEnvelope) /\ req[a].pc = "done"
        /\ req[b].execReturn = jsonResponse(DeferredEnvelope) /\ req[b].edits # <<>>

====
